---- MODULE Spec2Model ----
(***************************************************************************)
(* Minutes-of-meeting generator: transcript/diarization alignment          *)
(* (app/conversation_builder.py), the conversation summarizer              *)
(* (app/summary.py), the speech-to-text wrapper (app/stt_model.py) and the *)
(* Process handler of the Streamlit page (app/ui.py).                      *)
(*                                                                         *)
(* A Python str is a sequence of one-character strings.  A Python dict is  *)
(* a record with a field "keys" holding the keys that are present; the     *)
(* value None of a timestamp is the empty tuple, and None inside a         *)
(* timestamp pair is NoneT.                                                *)
(***************************************************************************)
EXTENDS Integers, Sequences, FiniteSets, TLC

\* ------------------------------------------------------------------ bounds
MaxTime == 1        \* diarization and transcript times range over 0..MaxTime
MaxSegs == 2        \* longest diarization list of a direct alignment call
MaxChunks == 2      \* longest transcript of a direct alignment call
MaxLines == 2       \* texts hold every sequence of at most MaxLines lines
ManyLines == 7      \* length of the longest text of short lines
LongLen == 405      \* length of the long line
MaxUIChunks == 2    \* longest transcript the speech recognition returns in a run
TokScale == 100     \* tokens per character of the coarse tokenizer

\* ----------------------------------------------------------------- strings
NoneT == -1

Unknown == <<"u", "n", "k", "n", "o", "w", "n">>
SpeakerLbl == <<"S", "p", "e", "a", "k", "e", "r">>
LabelA == <<"A">>
LabelB == <<"B">>

Min(a, b) == IF a <= b THEN a ELSE b
Max(a, b) == IF a >= b THEN a ELSE b

\* Sequences over S of length at most n.
SeqsUpTo(S, n) == UNION {[1..k -> S] : k \in 0..n}

\* ------------------------------------------------- conversation_builder.py
\* dict.get(key, default) on a transcript chunk.
ChunkGetTimestamp(chunk) ==
    IF "timestamp" \in chunk.keys THEN chunk.timestamp ELSE <<>>
ChunkGetStart(chunk) == IF "start" \in chunk.keys THEN chunk.start ELSE 0
ChunkGetEnd(chunk) == IF "end" \in chunk.keys THEN chunk.end ELSE 0
ChunkGetText(chunk) == IF "text" \in chunk.keys THEN chunk.text ELSE <<>>

\* chunk_start, chunk_end of lines 5-13.
ChunkStart(chunk) ==
    IF ChunkGetTimestamp(chunk) # <<>>
    THEN ChunkGetTimestamp(chunk)[1]
    ELSE ChunkGetStart(chunk)
ChunkEnd(chunk) ==
    IF ChunkGetTimestamp(chunk) # <<>>
    THEN ChunkGetTimestamp(chunk)[2]
    ELSE ChunkGetEnd(chunk)

\* segment["start"] <= chunk_start <= segment["end"]
Contains(segment, t) == segment.start <= t /\ t <= segment.end

\* The inner loop of lines 17-20: the index of the segment the scan stops at,
\* 0 when it runs to the end without a match.
RECURSIVE ScanFrom(_, _, _)
ScanFrom(segments, t, i) ==
    IF i > Len(segments) THEN 0
    ELSE IF Contains(segments[i], t) THEN i
    ELSE ScanFrom(segments, t, i + 1)

\* The same loop without its break: the last match wins.
FirstMatch_NoBreak(segments, t) ==
    IF \E i \in 1..Len(segments) : Contains(segments[i], t)
    THEN CHOOSE i \in 1..Len(segments) :
            /\ Contains(segments[i], t)
            /\ \A j \in (i + 1)..Len(segments) : ~Contains(segments[j], t)
    ELSE 0
FirstMatch(segments, t) == ScanFrom(segments, t, 1)

\* speaker_label of lines 16-20.
SpeakerLabel_DefaultFirst(segments, t) ==
    IF FirstMatch(segments, t) # 0 THEN segments[FirstMatch(segments, t)].speaker
    ELSE IF segments # <<>> THEN segments[1].speaker
    ELSE Unknown
SpeakerLabel(segments, t) ==
    IF FirstMatch(segments, t) # 0
    THEN segments[FirstMatch(segments, t)].speaker
    ELSE Unknown

\* The turn appended at lines 22-27.
Turn(chunk, segments) ==
    [start |-> ChunkStart(chunk), end |-> ChunkEnd(chunk),
     speaker |-> SpeakerLabel(segments, ChunkStart(chunk)),
     text |-> ChunkGetText(chunk)]

\* Comparing a number with None (line 18) raises TypeError; the comparison
\* is only evaluated when the diarization list has a segment to compare.
AlignRaises(transcript, segments) ==
    /\ segments # <<>>
    /\ \E i \in 1..Len(transcript) : ChunkStart(transcript[i]) = NoneT

align_Reversed(transcript, segments) ==
    [raised |-> AlignRaises(transcript, segments),
     turns |-> IF AlignRaises(transcript, segments) THEN <<>>
               ELSE [i \in 1..Len(transcript) |->
                        Turn(transcript[Len(transcript) + 1 - i], segments)]]
align_transcript_with_speakers(transcript, segments) ==
    [raised |-> AlignRaises(transcript, segments),
     turns |-> IF AlignRaises(transcript, segments) THEN <<>>
               ELSE [i \in 1..Len(transcript) |-> Turn(transcript[i], segments)]]

\* Join of a sequence of strings with a separator: sep.join(parts).
RECURSIVE Join(_, _)
Join(parts, sep) ==
    IF parts = <<>> THEN <<>>
    ELSE IF Len(parts) = 1 THEN parts[1]
    ELSE parts[1] \o sep \o Join(Tail(parts), sep)

\* format_conversation: one "speaker: text" line per turn.
format_conversation(conv) ==
    Join([i \in 1..Len(conv) |-> conv[i].speaker \o <<":", " ">> \o conv[i].text],
         <<"\n">>)

\* ------------------------------------------------------------- str methods
IsSpace(c) == c \in {" ", "\n", "\t"}

\* Whether s holds a character that is no whitespace; the first and the last
\* position of such a character.
HasSolid(s) == \E i \in 1..Len(s) : ~IsSpace(s[i])
FirstSolid(s) ==
    CHOOSE i \in 1..Len(s) : ~IsSpace(s[i]) /\ \A j \in 1..(i - 1) : IsSpace(s[j])
LastSolid(s) ==
    CHOOSE i \in 1..Len(s) : ~IsSpace(s[i]) /\ \A j \in (i + 1)..Len(s) : IsSpace(s[j])

\* str.lstrip, str.rstrip, str.strip
LStrip(s) == IF HasSolid(s) THEN SubSeq(s, FirstSolid(s), Len(s)) ELSE <<>>
RStrip(s) == IF HasSolid(s) THEN SubSeq(s, 1, LastSolid(s)) ELSE <<>>
Strip(s) == IF HasSolid(s) THEN SubSeq(s, FirstSolid(s), LastSolid(s)) ELSE <<>>

\* Index of the first line break of s at or after i, 0 when there is none.
BreakFrom(s, i) ==
    IF \E k \in i..Len(s) : s[k] = "\n"
    THEN CHOOSE k \in i..Len(s) : s[k] = "\n" /\ \A j \in i..(k - 1) : s[j] # "\n"
    ELSE 0

\* str.splitlines: the lines without their line breaks; no empty last line.
RECURSIVE SplitLines(_)
SplitLines(s) ==
    IF s = <<>> THEN <<>>
    ELSE IF BreakFrom(s, 1) = 0 THEN <<s>>
    ELSE <<SubSeq(s, 1, BreakFrom(s, 1) - 1)>>
            \o SplitLines(SubSeq(s, BreakFrom(s, 1) + 1, Len(s)))

\* [ln for ln in text.splitlines() if ln.strip()]
NonBlank(ln) == Strip(ln) # <<>>
NonBlankLines(text) == SelectSeq(SplitLines(text), NonBlank)

\* seq[:n]
Take(seq, n) == SubSeq(seq, 1, Min(n, Len(seq)))

\* -------------------------------------------------------------- summary.py
Limit == 400
HeadLines == 5
DefaultModelMax == 1024
MinBudget == 256
MaxBudget == 900
Headroom == 64
CharsPerToken == 4
EstimateDiv == 4

NoContent ==
    <<"N", "o", " ", "c", "o", "n", "t", "e", "n", "t", " ", "t", "o", " ",
      "s", "u", "m", "m", "a", "r", "i", "z", "e", ".">>

\* _safe_truncate(text, limit=400)
safe_truncate_KeepLimit(text) ==
    IF Len(text) <= Limit THEN text
    ELSE RStrip(SubSeq(text, 1, Limit)) \o <<".", ".", ".">>
safe_truncate(text) ==
    IF Len(text) <= Limit THEN text
    ELSE RStrip(SubSeq(text, 1, Limit - 3)) \o <<".", ".", ".">>

\* _fallback_summary(text)
StrippedLines(text) ==
    LET kept == NonBlankLines(text) IN [i \in 1..Len(kept) |-> Strip(kept[i])]
fallback_summary_NoHead(text) ==
    IF StrippedLines(text) = <<>> THEN NoContent
    ELSE Join(StrippedLines(text), <<"\n">>)
fallback_summary(text) ==
    IF StrippedLines(text) = <<>> THEN NoContent
    ELSE Join(Take(StrippedLines(text), HeadLines), <<"\n">>)

\* The tokenizer of the pipeline is a library object.  Its encode is one of:
\* one token per character, TokScale tokens per character, or raising, in
\* which case line 160 estimates max(1, len(ln) // 4).
TokLen(tok, ln) ==
    IF tok = "perchar" THEN Len(ln)
    ELSE IF tok = "coarse" THEN TokScale * Len(ln)
    ELSE Max(1, Len(ln) \div EstimateDiv)

\* max(256, min(900, model_max - 64)) of line 100, model_max of line 98.
ModelMax(tok, mm) ==
    IF tok = "none" \/ mm.tag = "absent" \/ (mm.tag = "int" /\ mm.v = 0)
    THEN DefaultModelMax ELSE mm.v
TokenBudget(tok, mm) == Max(MinBudget, Min(MaxBudget, ModelMax(tok, mm) - Headroom))

\* isinstance(out, list) and out and "summary_text" in out[0]
WellFormed(out) == out.kind = "ok"

\* --------------------------------------------------------- input domains
Times == 0..MaxTime
Speakers == {Unknown, LabelA, LabelB}

\* Diarization segments as diarize builds them (diarization.py 46-52): a
\* turn of the audio, start <= end, with a speaker label.
Segments ==
    {s \in [start : Times, end : Times, speaker : Speakers] : s.start <= s.end}

MkChunk(keys, ts, s, e, txt) ==
    [keys |-> keys, timestamp |-> ts, start |-> s, end |-> e, text |-> txt]

\* Transcript chunks: Whisper's {"timestamp": (s, e), "text": ...}, a chunk
\* whose timestamp wins over its start field, a chunk whose timestamp is None
\* and that carries start/end, chunks with keys missing (one starting after
\* every segment), and a chunk whose timestamp pair holds None.
Chunks ==
    {MkChunk({"timestamp", "text"}, <<0, 1>>, 0, 0, <<"h", "i">>),
     MkChunk({"timestamp", "start", "text"}, <<1, MaxTime + 1>>, 0, 0, <<" ">>),
     MkChunk({"timestamp", "start", "end", "text"}, <<>>, MaxTime, MaxTime, <<"o", "k">>),
     MkChunk({}, <<>>, 0, 0, <<>>),
     MkChunk({"start"}, <<>>, MaxTime + 1, 0, <<>>),
     MkChunk({"timestamp", "text"}, <<NoneT, NoneT>>, 0, 0, <<"n", "o">>)}

\* Lines of the texts handed to the summarizer: short lines with and without
\* surrounding blanks, a blank line, and a line longer than the
\* truncation limit with blanks just before the cut.
LongLine == [i \in 1..LongLen |-> IF i >= Limit - 10 /\ i < Limit THEN " " ELSE "a"]
LineSet == {<<"a">>, <<" ", "b", " ">>, <<" ">>, LongLine}
Digits == <<"1", "2", "3", "4", "5", "6", "7", "8", "9">>
ManyLineText == [i \in 1..ManyLines |-> IF i = 2 THEN <<" ">> ELSE <<" ", Digits[i]>>]
ShortTexts == SeqsUpTo(LineSet, MaxLines)
\* The text of many lines is summarized without a pipeline only: with one,
\* every line of it may become a chunk with its own pipeline outcome.
TextsFor(p) == IF p = "none" THEN ShortTexts \cup {ManyLineText} ELSE ShortTexts
\* Texts of the direct calls of the chunkers.
DirectTexts == ShortTexts \cup {ManyLineText}

\* What the pipeline object returns or does when called: it raises, returns
\* something that is no list holding a "summary_text", or returns a summary.
PipeOuts ==
    {[kind |-> "raise", summary_text |-> <<>>],
     [kind |-> "malformed", summary_text |-> <<>>],
     [kind |-> "ok", summary_text |-> <<>>],
     [kind |-> "ok", summary_text |-> <<" ", "s", ".", " ">>]}

Tokenizers == {"none", "perchar", "coarse", "raises"}
AbsentMax == [tag |-> "absent", v |-> 0]
ModelMaxes ==
    {[tag |-> "int", v |-> 0], [tag |-> "int", v |-> 320], [tag |-> "other", v |-> 0]}
Budgets == {2, 5}

\* ------------------------------------------------------------------ state
VARIABLES
    pc,                    \* position of a direct call of the alignment
    transcript_chunks,     \* argument / local of render_ui
    diarization_segments,  \* argument / local of render_ui
    aligned,               \* the value align_transcript_with_speakers returned
    sum_pc,                \* position inside ConversationSummarizer
    local_dir,             \* os.path.isdir(resolved_model_path)
    model_path,            \* what line 64 hands to pipeline()
    pipe,                  \* self._pipe: "none" or "present"
    tokenizer,             \* the pipeline's tokenizer (see TokLen)
    model_max,             \* tokenizer.model_max_length
    caller,                \* the method that was called
    input_lines,           \* the lines the argument text was written from
    text,                  \* the text argument
    cleaned,               \* the text being chunked
    budget,                \* max_tokens / max_chars
    lines, idx,            \* loop over lines; loop over chunks
    chunks, current, current_len,
    partial_summaries,
    pipe_log,              \* what each call of self._pipe did, in order
    result,                \* what the method returned or that it raised
    ui_pc,                 \* position inside the Process handler of render_ui
    audio_file,            \* a file is uploaded
    enable_diarization,    \* the sidebar checkbox
    hf_token,              \* load_hf_token() returned a non-empty token
    stt_result,            \* what the speech-recognition pipeline returned
    stt_return,            \* what STTModel.transcribe returned or that it raised
    conversation,
    conversation_text,
    summary,
    messages,              \* st.success / st.error / st.info calls, in order
    rendered               \* widgets of the output column

alignvars == <<pc, transcript_chunks, diarization_segments, aligned>>
ctorvars == <<local_dir, model_path, pipe, tokenizer, model_max>>
callvars == <<caller, input_lines, text, cleaned, budget>>
packvars == <<lines, chunks, current, current_len>>
sumvars == <<sum_pc, ctorvars, callvars, packvars, idx, partial_summaries, pipe_log, result>>
uivars == <<ui_pc, audio_file, enable_diarization, hf_token, stt_result, stt_return,
            conversation, conversation_text, summary, messages, rendered>>
vars == <<alignvars, sumvars, uivars>>

NoResult == [raised |-> FALSE, turns |-> <<>>]
NoValue == [kind |-> "none", value |-> <<>>]
Raised == [kind |-> "raised", value |-> <<>>]
Value(v) == [kind |-> "str", value |-> v]

AlignIdle ==
    /\ pc = "idle"
    /\ transcript_chunks = <<>>
    /\ diarization_segments = <<>>
    /\ aligned = NoResult

SumIdle ==
    /\ sum_pc = "new"
    /\ local_dir = FALSE /\ model_path = "unset"
    /\ pipe = "none" /\ tokenizer = "none" /\ model_max = AbsentMax
    /\ caller = "none" /\ input_lines = <<>> /\ text = <<>> /\ cleaned = <<>>
    /\ budget = 0
    /\ lines = <<>> /\ idx = 0
    /\ chunks = <<>> /\ current = <<>> /\ current_len = 0
    /\ partial_summaries = <<>>
    /\ pipe_log = <<>>
    /\ result = NoValue

NoReturn == [raised |-> FALSE, value |-> <<>>]
NoSttResult == [kind |-> "none", keys |-> {}, text |-> <<>>, chunks |-> <<>>]

UIIdle ==
    /\ ui_pc = "idle"
    /\ audio_file = FALSE /\ enable_diarization = FALSE /\ hf_token = FALSE
    /\ stt_result = NoSttResult
    /\ stt_return = NoReturn
    /\ conversation = <<>> /\ conversation_text = <<>> /\ summary = <<>>
    /\ messages = <<>>
    /\ rendered = {}

\* ------------------------------------------- direct calls of the alignment
InitAlign ==
    /\ pc = "call"
    /\ transcript_chunks \in SeqsUpTo(Chunks, MaxChunks)
    /\ diarization_segments \in SeqsUpTo(Segments, MaxSegs)
    /\ aligned = NoResult
    /\ SumIdle
    /\ UIIdle

AlignCall ==
    /\ pc = "call"
    /\ aligned' = align_transcript_with_speakers(transcript_chunks, diarization_segments)
    /\ pc' = "returned"
    /\ UNCHANGED <<transcript_chunks, diarization_segments, sumvars, uivars>>

NextAlign == AlignCall

SpecAlign == InitAlign /\ [][NextAlign]_vars

\* ------------------------------------------------ ConversationSummarizer
\* __init__ (lines 44-75).  The environment decides whether transformers and
\* torch import, whether the local model folder exists, and whether
\* pipeline() loads the model it is handed (the local folder, or the name
\* "bart-large-cnn" left to hub resolution).
Construct(imports, isdir, loads, tok, mm) ==
    /\ sum_pc = "new"
    /\ ui_pc \in {"idle", "summarization"}
    /\ UNCHANGED <<alignvars, uivars>>
    /\ local_dir' = isdir
    /\ model_path' = IF ~imports THEN "unset"
                     ELSE IF isdir THEN "resolved_model_path" ELSE "model_dir"
    /\ pipe' = IF imports /\ loads THEN "present" ELSE "none"
    /\ tokenizer' = IF imports /\ loads THEN tok ELSE "none"
    /\ model_max' = IF imports /\ loads /\ tok # "none" THEN mm ELSE AbsentMax
    /\ sum_pc' = "ready"
    /\ UNCHANGED <<callvars, packvars, idx, partial_summaries, pipe_log, result>>

\* Entry of the two chunkers: the list comprehension and the empty buffers.
StartPacking(txt, max, mode) ==
    /\ cleaned' = txt
    /\ budget' = max
    /\ lines' = NonBlankLines(txt)
    /\ idx' = 1
    /\ chunks' = <<>> /\ current' = <<>> /\ current_len' = 0
    /\ sum_pc' = mode

\* _chunk_by_tokens up to its loop (lines 145-153).
EnterChunkByTokens(txt, max_tokens) ==
    IF tokenizer = "none"
    THEN StartPacking(txt, max_tokens * CharsPerToken, "pack_lines")
    ELSE StartPacking(txt, max_tokens, "pack_tokens")

\* summarize up to the chunk loop (lines 89-100); ls are the lines txt was
\* written from.
SummarizeText(txt, ls) ==
    /\ sum_pc = "ready"
    /\ UNCHANGED <<alignvars, uivars>>
    /\ caller' = "summarize"
    /\ input_lines' = ls
    /\ text' = txt
    /\ UNCHANGED <<ctorvars, partial_summaries, pipe_log>>
    /\ LET c == Strip(txt) IN
       IF c = <<>> \/ pipe = "none" \/ (tokenizer # "none" /\ model_max.tag = "other")
       THEN /\ result' = IF c = <<>> THEN Value(NoContent)
                         ELSE IF pipe = "none" THEN Value(fallback_summary(c))
                         ELSE Raised
            /\ cleaned' = c
            /\ sum_pc' = "done"
            /\ UNCHANGED <<budget, packvars, idx>>
       ELSE /\ EnterChunkByTokens(c, TokenBudget(tokenizer, model_max))
            /\ UNCHANGED result

\* A direct call of summarize(text).
SummarizeCall(ls) == SummarizeText(Join(ls, <<"\n">>), ls)

\* A direct call of _chunk_by_tokens(text, max_tokens).
ChunkByTokensCall(ls, max_tokens) ==
    /\ sum_pc = "ready"
    /\ ui_pc = "idle"
    /\ UNCHANGED <<alignvars, uivars>>
    /\ caller' = "chunk_by_tokens"
    /\ input_lines' = ls
    /\ text' = Join(ls, <<"\n">>)
    /\ EnterChunkByTokens(Join(ls, <<"\n">>), max_tokens)
    /\ UNCHANGED <<ctorvars, partial_summaries, pipe_log, result>>

\* A direct call of _chunk_by_lines(text, max_chars).
ChunkByLinesCall(ls, max_chars) ==
    /\ sum_pc = "ready"
    /\ ui_pc = "idle"
    /\ UNCHANGED <<alignvars, uivars>>
    /\ caller' = "chunk_by_lines"
    /\ input_lines' = ls
    /\ text' = Join(ls, <<"\n">>)
    /\ StartPacking(Join(ls, <<"\n">>), max_chars, "pack_lines")
    /\ UNCHANGED <<ctorvars, partial_summaries, pipe_log, result>>

\* The loop body without the reset of the counter on a flush.
PackStep_KeepLen(cost) ==
    LET flush == current # <<>> /\ current_len + cost > budget IN
    /\ chunks' = IF flush THEN Append(chunks, Join(current, <<"\n">>)) ELSE chunks
    /\ current' = Append(IF flush THEN <<>> ELSE current, lines[idx])
    /\ current_len' = current_len + cost
    /\ idx' = idx + 1

\* One iteration of a packing loop: cost is the length the line adds.
PackStep(cost) ==
    LET flush == current # <<>> /\ current_len + cost > budget IN
    /\ chunks' = IF flush THEN Append(chunks, Join(current, <<"\n">>)) ELSE chunks
    /\ current' = Append(IF flush THEN <<>> ELSE current, lines[idx])
    /\ current_len' = (IF flush THEN 0 ELSE current_len) + cost
    /\ idx' = idx + 1

\* After a packing loop: the last flush, the [text] default, the return.
PackReturn ==
    LET flushed == IF current # <<>> THEN Append(chunks, Join(current, <<"\n">>))
                   ELSE chunks
    IN  /\ chunks' = IF flushed # <<>> THEN flushed ELSE <<cleaned>>
        /\ idx' = 1
        /\ IF caller = "summarize"
           THEN sum_pc' = "pipe" /\ result' = result
           ELSE sum_pc' = "done" /\ result' = [kind |-> "chunks", value |-> <<>>]
        /\ UNCHANGED <<ctorvars, callvars, lines, current, current_len,
                       partial_summaries, pipe_log>>

\* _chunk_by_tokens, lines 155-169.
PackTokensLine ==
    /\ sum_pc = "pack_tokens"
    /\ UNCHANGED <<alignvars, uivars>>
    /\ idx <= Len(lines)
    /\ PackStep(TokLen(tokenizer, lines[idx]))
    /\ UNCHANGED <<sum_pc, ctorvars, callvars, lines, partial_summaries,
                   pipe_log, result>>

\* _chunk_by_tokens, lines 171-174.
PackTokensEnd ==
    /\ sum_pc = "pack_tokens"
    /\ UNCHANGED <<alignvars, uivars>>
    /\ idx > Len(lines)
    /\ PackReturn

\* _chunk_by_lines, lines 182-188.
PackLinesLine ==
    /\ sum_pc = "pack_lines"
    /\ UNCHANGED <<alignvars, uivars>>
    /\ idx <= Len(lines)
    /\ PackStep(Len(lines[idx]) + 1)
    /\ UNCHANGED <<sum_pc, ctorvars, callvars, lines, partial_summaries,
                   pipe_log, result>>

\* _chunk_by_lines, lines 189-191.
PackLinesEnd ==
    /\ sum_pc = "pack_lines"
    /\ UNCHANGED <<alignvars, uivars>>
    /\ idx > Len(lines)
    /\ PackReturn

\* The partial summary of one chunk (lines 104-116).
PartialSummary(chunk, out) ==
    IF WellFormed(out) THEN Strip(out.summary_text) ELSE safe_truncate(chunk)

\* summarize, one iteration of the chunk loop (lines 103-116).
PipeChunk(out) ==
    /\ sum_pc = "pipe"
    /\ UNCHANGED <<alignvars, uivars>>
    /\ idx <= Len(chunks)
    /\ partial_summaries' = Append(partial_summaries, PartialSummary(chunks[idx], out))
    /\ pipe_log' = Append(pipe_log, out)
    /\ idx' = idx + 1
    /\ UNCHANGED <<sum_pc, ctorvars, callvars, packvars, result>>

\* summarize after the chunk loop (lines 118-124).
Collect ==
    /\ sum_pc = "pipe"
    /\ UNCHANGED <<alignvars, uivars>>
    /\ idx > Len(chunks)
    /\ IF partial_summaries = <<>>
       THEN sum_pc' = "done" /\ result' = Value(fallback_summary(cleaned))
       ELSE IF Len(partial_summaries) = 1
       THEN sum_pc' = "done" /\ result' = Value(Join(partial_summaries, <<"\n">>))
       ELSE sum_pc' = "combine" /\ result' = result
    /\ UNCHANGED <<ctorvars, callvars, packvars, idx, partial_summaries, pipe_log>>

\* The value summarize returns after the combining call (lines 126-138).
Combined(partials, out) ==
    IF WellFormed(out) THEN Strip(out.summary_text) ELSE Join(partials, <<"\n">>)

\* summarize, the combining call (lines 126-138).
CombineCall(out) ==
    /\ sum_pc = "combine"
    /\ UNCHANGED <<alignvars, uivars>>
    /\ pipe_log' = Append(pipe_log, out)
    /\ result' = Value(Combined(partial_summaries, out))
    /\ sum_pc' = "done"
    /\ UNCHANGED <<ctorvars, callvars, packvars, idx, partial_summaries>>

Init == AlignIdle /\ SumIdle /\ UIIdle

\* The steps of a summarize call or of a chunker once it has been entered.
SummarizerRun ==
    \/ PackTokensLine
    \/ PackTokensEnd
    \/ PackLinesLine
    \/ PackLinesEnd
    \/ \E out \in PipeOuts : PipeChunk(out)
    \/ Collect
    \/ \E out \in PipeOuts : CombineCall(out)

ConstructAny ==
    \E imports, isdir, loads \in BOOLEAN, tok \in Tokenizers, mm \in ModelMaxes :
        Construct(imports, isdir, loads, tok, mm)

Next ==
    \/ ConstructAny
    \/ \E ls \in TextsFor(pipe) : SummarizeCall(ls)
    \/ \E ls \in DirectTexts, b \in Budgets : ChunkByTokensCall(ls, b)
    \/ \E ls \in DirectTexts, b \in Budgets : ChunkByLinesCall(ls, b)
    \/ SummarizerRun

Spec == Init /\ [][Next]_vars

\* ----------------------------------------------------------- stt_model.py
\* STTModel.transcribe (lines 16-35): res is what loading the audio and
\* calling the pipeline produced, an error or the pipeline's result dict.
transcribe(res) ==
    IF res.kind = "error" \/ "chunks" \notin res.keys
    THEN [raised |-> TRUE, value |-> <<>>]
    ELSE [raised |-> FALSE, value |-> res.chunks]

\* --------------------------------------------------------- diarization.py
\* DiarizationModel(...).diarize(audio_bytes): __init__ swallows a failed
\* load and leaves pipeline None, diarize then raises ValueError (line 24);
\* otherwise the pipeline raises or yields the segments.
diarize(loaded, out) ==
    IF ~loaded \/ out.kind = "raise" THEN [raised |-> TRUE, value |-> <<>>]
    ELSE [raised |-> FALSE, value |-> out.segments]

\* ------------------------------------------------------------------ ui.py
\* Transcripts and diarizations of a Process run.
UIChunks == {c \in Chunks : "text" \in c.keys /\ "start" \notin c.keys}
                \cup {MkChunk({}, <<>>, 0, 0, <<>>)}
UISegLists ==
    {<<>>} \cup {<<s>> : s \in {x \in Segments : x.end = MaxTime /\ x.speaker = LabelA}}
DiarOuts ==
    {[kind |-> "raise", segments |-> <<>>]}
        \cup {[kind |-> "segments", segments |-> l] : l \in UISegLists}
SttResults ==
    {[kind |-> "error", keys |-> {}, text |-> <<>>, chunks |-> <<>>],
     [kind |-> "result", keys |-> {"text"}, text |-> <<"h", "i">>, chunks |-> <<>>]}
        \cup {[kind |-> "result", keys |-> {"text", "chunks"}, text |-> <<"h", "i">>,
               chunks |-> l] : l \in SeqsUpTo(UIChunks, MaxUIChunks)}

Said(m) == \E i \in 1..Len(messages) : messages[i] = m

\* Line 86: whether the alignment function is used.
UseAlignment_Enabled(enable, segments) == enable
UseAlignment(enable, segments) == enable /\ segments # <<>>

\* Lines 90-98: every chunk attributed to the single speaker "Speaker".
SingleSpeakerTurn(ch) ==
    [start |-> IF ChunkGetTimestamp(ch) # <<>> THEN ChunkGetTimestamp(ch)[1]
               ELSE ChunkGetStart(ch),
     end |-> IF ChunkGetTimestamp(ch) # <<>> THEN ChunkGetTimestamp(ch)[2]
             ELSE ChunkGetEnd(ch),
     speaker |-> SpeakerLbl,
     text |-> ChunkGetText(ch)]
SingleSpeaker(transcript) ==
    [raised |-> FALSE,
     turns |-> [i \in 1..Len(transcript) |-> SingleSpeakerTurn(transcript[i])]]

\* Lines 115-125: the widgets of the output column.
OutputWidgets_AlwaysOffer(sum) ==
    {IF sum # <<>> THEN "write:summary" ELSE "write:No summary available.",
     "text:conversation", "download:Conversation", "download:Summary"}
OutputWidgets(sum) ==
    {IF sum # <<>> THEN "write:summary" ELSE "write:No summary available.",
     "text:conversation", "download:Conversation"}
        \cup (IF sum # <<>> THEN {"download:Summary"} ELSE {})

InitUI ==
    /\ AlignIdle
    /\ SumIdle
    /\ ui_pc = "process"
    /\ audio_file \in BOOLEAN
    /\ enable_diarization \in BOOLEAN
    /\ hf_token \in BOOLEAN
    /\ stt_result = NoSttResult
    /\ stt_return = NoReturn
    /\ conversation = <<>> /\ conversation_text = <<>> /\ summary = <<>>
    /\ messages = <<>>
    /\ rendered = {}

\* Lines 45-60: the button; without a file it is disabled and the page shows
\* the hint of line 127.
Process ==
    /\ ui_pc = "process"
    /\ IF audio_file
       THEN /\ ui_pc' = "diarization"
            /\ messages' = messages
       ELSE /\ ui_pc' = "returned"
            /\ messages' = Append(messages, "Upload audio and click Process to begin.")
    /\ diarization_segments' = <<>>
    /\ UNCHANGED <<pc, transcript_chunks, aligned, sumvars, audio_file,
                   enable_diarization, hf_token, stt_result, stt_return, conversation,
                   conversation_text, summary, rendered>>

\* Lines 61-63: diarization disabled, or enabled without a token.
DiarizationSkipped ==
    /\ ui_pc = "diarization"
    /\ ~(enable_diarization /\ hf_token)
    /\ messages' = IF enable_diarization
                   THEN Append(messages, "Missing HF token. Skipping diarization.")
                   ELSE messages
    /\ ui_pc' = "transcription"
    /\ UNCHANGED <<alignvars, sumvars, audio_file, enable_diarization, hf_token,
                   stt_result, stt_return, conversation, conversation_text, summary,
                   rendered>>

\* Lines 65-72.
Diarization(loaded, out) ==
    /\ ui_pc = "diarization"
    /\ enable_diarization /\ hf_token
    /\ diarization_segments' = diarize(loaded, out).value
    /\ messages' = Append(messages, IF diarize(loaded, out).raised
                                    THEN "Diarization failed"
                                    ELSE "Diarization complete")
    /\ ui_pc' = "transcription"
    /\ UNCHANGED <<pc, transcript_chunks, aligned, sumvars, audio_file,
                   enable_diarization, hf_token, stt_result, stt_return, conversation,
                   conversation_text, summary, rendered>>

\* Lines 75-81.
Transcription(res) ==
    /\ ui_pc = "transcription"
    /\ stt_result' = res
    /\ stt_return' = transcribe(res)
    /\ IF transcribe(res).raised
       THEN /\ messages' = Append(messages, "Transcription failed")
            /\ ui_pc' = "returned"
            /\ UNCHANGED transcript_chunks
       ELSE /\ messages' = Append(messages, "Transcription complete")
            /\ ui_pc' = "alignment"
            /\ transcript_chunks' = transcribe(res).value
    /\ UNCHANGED <<pc, diarization_segments, aligned, sumvars, audio_file,
                   enable_diarization, hf_token, conversation, conversation_text,
                   summary, rendered>>

\* Lines 84-103.
Alignment ==
    /\ ui_pc = "alignment"
    /\ LET use == UseAlignment(enable_diarization, diarization_segments)
           r == IF use
                THEN align_transcript_with_speakers(transcript_chunks, diarization_segments)
                ELSE SingleSpeaker(transcript_chunks)
       IN  /\ pc' = IF use THEN "returned" ELSE pc
           /\ aligned' = IF use THEN r ELSE aligned
           /\ IF r.raised
              THEN /\ messages' = Append(messages, "Alignment failed")
                   /\ ui_pc' = "returned"
                   /\ UNCHANGED <<conversation, conversation_text>>
              ELSE /\ messages' = Append(messages, "Alignment complete")
                   /\ ui_pc' = "summarization"
                   /\ conversation' = r.turns
                   /\ conversation_text' = format_conversation(r.turns)
    /\ UNCHANGED <<transcript_chunks, diarization_segments, sumvars, audio_file,
                   enable_diarization, hf_token, stt_result, stt_return, summary,
                   rendered>>

\* Line 109, after the constructor of line 108 (ConstructAny).
Summarize ==
    /\ ui_pc = "summarization"
    /\ SummarizeText(conversation_text,
                     [i \in 1..Len(conversation) |->
                        conversation[i].speaker \o <<":", " ">> \o conversation[i].text])

\* Lines 110-113: the summary, or "" when the summarizer raised.
SummarizationDone ==
    /\ ui_pc = "summarization"
    /\ sum_pc = "done"
    /\ summary' = IF result.kind = "raised" THEN <<>> ELSE result.value
    /\ messages' = Append(messages, IF result.kind = "raised"
                                    THEN "Summarization failed"
                                    ELSE "Summary generated")
    /\ ui_pc' = "output"
    /\ UNCHANGED <<alignvars, sumvars, audio_file, enable_diarization, hf_token,
                   stt_result, stt_return, conversation, conversation_text, rendered>>

\* Lines 115-125.
Output ==
    /\ ui_pc = "output"
    /\ rendered' = OutputWidgets(summary)
    /\ ui_pc' = "returned"
    /\ UNCHANGED <<alignvars, sumvars, audio_file, enable_diarization, hf_token,
                   stt_result, stt_return, conversation, conversation_text, summary,
                   messages>>

NextUI ==
    \/ Process
    \/ DiarizationSkipped
    \/ \E loaded \in BOOLEAN, out \in DiarOuts : Diarization(loaded, out)
    \/ \E res \in SttResults : Transcription(res)
    \/ Alignment
    \/ ConstructAny
    \/ Summarize
    \/ SummarizerRun
    \/ SummarizationDone
    \/ Output

SpecUI == InitUI /\ [][NextUI]_vars

\* ------------------------------------------------------ alignment claims
Returned == pc = "returned" /\ ~aligned.raised

\* Some diarization segment contains t (closed interval).
SomeContains(t) ==
    \E j \in 1..Len(diarization_segments) :
        diarization_segments[j].start <= t /\ t <= diarization_segments[j].end

\* C1: when no diarization segment contains a chunk's start time (the empty
\* list included) the chunk's turn has speaker "unknown", and a turn has
\* speaker "unknown" only if no segment contains the start time or a
\* containing segment is itself labelled "unknown".
C1_UnknownIffNoSegment ==
    Returned =>
        /\ Len(aligned.turns) = Len(transcript_chunks)
        /\ \A i \in 1..Len(aligned.turns) :
            LET t == aligned.turns[i].start IN
            /\ ~SomeContains(t) => aligned.turns[i].speaker = Unknown
            /\ aligned.turns[i].speaker = Unknown =>
                  \/ ~SomeContains(t)
                  \/ \E j \in 1..Len(diarization_segments) :
                        /\ diarization_segments[j].start <= t
                        /\ t <= diarization_segments[j].end
                        /\ diarization_segments[j].speaker = Unknown

\* A returned call with a non-empty diarization list in which one turn is
\* "unknown" for want of a segment and another is "unknown" by its segment's
\* own label.
C1_Witness ==
    /\ Returned
    /\ diarization_segments # <<>>
    /\ \E i, k \in 1..Len(aligned.turns) :
        /\ ~SomeContains(aligned.turns[i].start)
        /\ aligned.turns[i].speaker = Unknown
        /\ SomeContains(aligned.turns[k].start)
        /\ aligned.turns[k].speaker = Unknown

\* C4: first match wins: a chunk whose start time lies inside one or more
\* segments gets the label of the earliest such segment of the list, whatever
\* later segments overlap it and whatever the chunk's end time.
C4_FirstMatchWins ==
    Returned =>
        \A i \in 1..Len(aligned.turns) :
            \A j \in 1..Len(diarization_segments) :
                LET t == aligned.turns[i].start
                    inside(k) == /\ diarization_segments[k].start <= t
                                 /\ t <= diarization_segments[k].end
                IN  (inside(j) /\ \A k \in 1..(j - 1) : ~inside(k))
                        => aligned.turns[i].speaker = diarization_segments[j].speaker

\* A chunk start inside two segments with different labels, the turn's end
\* lying outside the first of them.
C4_Witness ==
    /\ Returned
    /\ \E i \in 1..Len(aligned.turns) :
        \E j, k \in 1..Len(diarization_segments) :
            LET t == aligned.turns[i].start IN
            /\ j < k
            /\ diarization_segments[j].start <= t /\ t <= diarization_segments[j].end
            /\ diarization_segments[k].start <= t /\ t <= diarization_segments[k].end
            /\ diarization_segments[j].speaker # diarization_segments[k].speaker
            /\ aligned.turns[i].speaker = diarization_segments[j].speaker
            /\ aligned.turns[i].end > diarization_segments[j].end

\* What C10 expects of the i-th turn, read off the i-th chunk.
HasTimestamp(chunk) == "timestamp" \in chunk.keys /\ chunk.timestamp # <<>>
ExpectedStart(chunk) ==
    IF HasTimestamp(chunk) THEN chunk.timestamp[1]
    ELSE IF "start" \in chunk.keys THEN chunk.start ELSE 0
ExpectedEnd(chunk) ==
    IF HasTimestamp(chunk) THEN chunk.timestamp[2]
    ELSE IF "end" \in chunk.keys THEN chunk.end ELSE 0
ExpectedText(chunk) == IF "text" \in chunk.keys THEN chunk.text ELSE <<>>

\* C10: a call that returns yields exactly one turn per transcript chunk, in
\* order, the i-th turn carrying the i-th chunk's start, end and text
\* (timestamp pair when present, else the start/end fields, default 0; text
\* default ""), and leaves both argument lists as they were.
C10_OneToOneZip ==
    [][(pc = "call" /\ pc' = "returned" /\ ~aligned'.raised) =>
        /\ transcript_chunks' = transcript_chunks
        /\ diarization_segments' = diarization_segments
        /\ Len(aligned'.turns) = Len(transcript_chunks)
        /\ \A i \in 1..Len(transcript_chunks) :
            /\ aligned'.turns[i].start = ExpectedStart(transcript_chunks[i])
            /\ aligned'.turns[i].end = ExpectedEnd(transcript_chunks[i])
            /\ aligned'.turns[i].text = ExpectedText(transcript_chunks[i])]_vars

\* Two different chunks aligned, one with a timestamp pair and one without.
C10_Witness ==
    /\ Returned
    /\ Len(transcript_chunks) >= 2
    /\ Len(aligned.turns) = Len(transcript_chunks)
    /\ HasTimestamp(transcript_chunks[1])
    /\ ~HasTimestamp(transcript_chunks[2])
    /\ aligned.turns[1].text # aligned.turns[2].text
    /\ aligned.turns[1].start = transcript_chunks[1].timestamp[1]

\* ----------------------------------------------------- summarizer claims
\* A chunker has returned its list of chunks.
ChunkingReturned ==
    \/ caller \in {"chunk_by_tokens", "chunk_by_lines"} /\ sum_pc = "done"
    \/ caller = "summarize" /\ sum_pc \in {"pipe", "combine"}
\* The chunks were packed by _chunk_by_lines (called directly or as the
\* fallback of _chunk_by_tokens).
PackedByLines == caller = "chunk_by_lines" \/ tokenizer = "none"

\* Sum of the token lengths of the lines of a chunk.
RECURSIVE TokSum(_, _)
TokSum(tok, lns) ==
    IF lns = <<>> THEN 0 ELSE TokLen(tok, Head(lns)) + TokSum(tok, Tail(lns))

\* C2: no chunk exceeds the budget: every chunk _chunk_by_tokens returns has
\* at most max_tokens tokens (summed over its lines) and every chunk
\* _chunk_by_lines returns has at most max_chars characters, for every text,
\* a text with a single line longer than the budget included.
C2_ChunksWithinBudget ==
    ChunkingReturned =>
        \A i \in 1..Len(chunks) :
            IF PackedByLines THEN Len(chunks[i]) <= budget
            ELSE TokSum(tokenizer, SplitLines(chunks[i])) <= budget

NonBlankInput(ln) == \E i \in 1..Len(ln) : ln[i] \notin {" ", "\n", "\t"}
\* The first min(5, n) non-blank lines of the text, stripped, joined by "\n".
ExpectedFallback ==
    LET nb == SelectSeq(input_lines, NonBlankInput) IN
    Join([i \in 1..(IF Len(nb) < 5 THEN Len(nb) ELSE 5) |-> Strip(nb[i])], <<"\n">>)

\* C3: with _pipe None, summarize of a text with a non-blank line returns the
\* first min(5, n) non-blank lines, each stripped, in order, joined by
\* newlines; the pipeline is never called and nothing is raised.
C3_FallbackWhenNoPipe ==
    (sum_pc = "done" /\ caller = "summarize" /\ pipe = "none"
        /\ \E i \in 1..Len(input_lines) : NonBlankInput(input_lines[i]))
    => /\ result = [kind |-> "str", value |-> ExpectedFallback]
       /\ pipe_log = <<>>

\* A text of more than five non-blank lines and a blank one, summarized
\* without a pipeline.
C3_Witness ==
    /\ sum_pc = "done" /\ caller = "summarize" /\ pipe = "none"
    /\ Len(SelectSeq(input_lines, NonBlankInput)) > 5
    /\ Len(SelectSeq(input_lines, NonBlankInput)) < Len(input_lines)
    /\ result.kind = "str"
    /\ Len(SplitLines(result.value)) = 5

\* C5: constructed without the local bart-large-cnn/ folder, the summarizer
\* has _pipe None and summarize returns the extractive fallback.
C5_NoFolderMeansFallback ==
    (sum_pc # "new" /\ ~local_dir) =>
        /\ pipe = "none"
        /\ (sum_pc = "done" /\ caller = "summarize" /\ Strip(text) # <<>>)
                => result = [kind |-> "str", value |-> fallback_summary(Strip(text))]

Failed(out) == out.kind \in {"raise", "malformed"}
\* p is chunk cut to at most 400 characters: the chunk itself when it is that
\* short, else its first 397 characters without trailing whitespace, then "...".
TruncatedTo400(chunk, p) ==
    IF Len(chunk) <= 400 THEN p = chunk
    ELSE LET k == Len(p) - 3 IN
         /\ k >= 0 /\ k <= 397
         /\ SubSeq(p, k + 1, k + 3) = <<".", ".", ".">>
         /\ SubSeq(p, 1, k) = SubSeq(chunk, 1, k)
         /\ k > 0 => ~IsSpace(chunk[k])
         /\ \A j \in (k + 1)..397 : IsSpace(chunk[j])

\* C9: with a pipeline, summarize does not raise once the pipeline is being
\* called; a chunk whose call raises or returns no summary_text contributes
\* _safe_truncate(chunk), at most 400 characters; every chunk contributes one
\* partial summary; the combining call happens only for more than one chunk,
\* and when it fails the newline-joined partial summaries are returned.
C9_PipelineFailuresContained ==
    (caller = "summarize" /\ pipe = "present") =>
        /\ result.kind = "raised" => pipe_log = <<>>
        /\ \A i \in 1..Len(partial_summaries) :
              Failed(pipe_log[i]) =>
                 /\ TruncatedTo400(chunks[i], partial_summaries[i])
                 /\ Len(partial_summaries[i]) <= 400
        /\ (sum_pc = "combine" \/ (sum_pc = "done" /\ pipe_log # <<>>)) =>
              Len(partial_summaries) = Len(chunks)
        /\ Len(pipe_log) > Len(chunks) => Len(chunks) > 1
        /\ (sum_pc = "done" /\ Len(pipe_log) > Len(chunks)
                /\ Failed(pipe_log[Len(pipe_log)])) =>
              result = [kind |-> "str", value |-> Join(partial_summaries, <<"\n">>)]

\* A summary of two chunks: the call on a chunk longer than 400 characters
\* fails and the chunk is truncated, the call on the other chunk succeeds,
\* and the combining call fails.
C9_Witness ==
    /\ caller = "summarize" /\ pipe = "present" /\ sum_pc = "done"
    /\ Len(chunks) = 2
    /\ Len(pipe_log) = 3
    /\ \E i, k \in 1..2 :
        /\ Failed(pipe_log[i]) /\ Len(chunks[i]) > 400
        /\ Len(partial_summaries[i]) < Len(chunks[i])
        /\ pipe_log[k].kind = "ok"
    /\ Failed(pipe_log[3])
    /\ result.kind = "str"

\* ------------------------------------------------------- Process claims
\* C6: whenever the speech-recognition pipeline returns a record with a
\* "text" field and no "chunks" field, transcribe returns the value of that
\* field instead of raising.
C6_TranscribeReturnsText ==
    (stt_result.kind = "result" /\ "text" \in stt_result.keys
        /\ "chunks" \notin stt_result.keys)
    => stt_return = [raised |-> FALSE, value |-> stt_result.text]

\* The diarization stage of a run is over and did not complete: it was
\* disabled, had no token, or failed.
DiarizationOver == audio_file /\ ui_pc \notin {"process", "diarization"}
NoDiarization == DiarizationOver /\ ~Said("Diarization complete")

\* C7: a skipped or failed diarization never stops the run: the segment list
\* is empty, the run does not return before transcription has been attempted,
\* and once alignment has succeeded every turn is labelled "Speaker", one per
\* chunk, align_transcript_with_speakers not having been called.
C7_DiarizationNeverStops ==
    NoDiarization =>
        /\ diarization_segments = <<>>
        /\ ui_pc = "returned" => stt_result.kind # "none"
        /\ ~Said("Alignment failed")
        /\ pc = "idle"
        /\ Said("Alignment complete") =>
              /\ Len(conversation) = Len(transcript_chunks)
              /\ \A i \in 1..Len(conversation) : conversation[i].speaker = SpeakerLbl

\* Diarization was enabled with a token and failed; the run went on to its
\* end with a conversation of several turns.
C7_Witness ==
    /\ enable_diarization /\ hf_token
    /\ Said("Diarization failed")
    /\ ui_pc = "returned"
    /\ Len(conversation) >= 2
    /\ rendered # {}

StageOf(m) ==
    IF m \in {"Missing HF token. Skipping diarization.", "Diarization failed",
              "Diarization complete"} THEN 1
    ELSE IF m \in {"Transcription failed", "Transcription complete"} THEN 2
    ELSE IF m \in {"Alignment failed", "Alignment complete"} THEN 3
    ELSE IF m \in {"Summarization failed", "Summary generated"} THEN 4
    ELSE 0

\* C8: the stages of a run report in the order diarization, transcription,
\* alignment, summarization, and the output is rendered last; the summarizer
\* is entered only after transcription and alignment succeeded; a run whose
\* transcription or alignment raised returns with no summary, no conversation
\* text and nothing rendered; a run whose summarization raised still renders
\* the conversation and its download, shows "No summary available." and does
\* not offer the summary download, which is offered exactly when the summary
\* is non-empty.
C8_StageOrderAndGating ==
    /\ \A i, j \in 1..Len(messages) : i < j => StageOf(messages[i]) < StageOf(messages[j])
    /\ rendered # {} =>
          /\ ui_pc = "returned"
          /\ Said("Summarization failed") \/ Said("Summary generated")
    /\ (sum_pc # "new" \/ Said("Summarization failed") \/ Said("Summary generated")) =>
          Said("Transcription complete") /\ Said("Alignment complete")
    /\ (Said("Transcription failed") \/ Said("Alignment failed")) =>
          /\ ui_pc = "returned"
          /\ sum_pc = "new" /\ summary = <<>> /\ conversation_text = <<>>
          /\ rendered = {}
    /\ (ui_pc = "returned" /\ Said("Summarization failed")) =>
          /\ {"text:conversation", "download:Conversation",
              "write:No summary available."} \subseteq rendered
          /\ "download:Summary" \notin rendered
    /\ (ui_pc = "returned" /\ rendered # {}) =>
          ("download:Summary" \in rendered <=> summary # <<>>)

\* A run in which diarization, transcription and alignment succeeded and only
\* the summarization raised.
C8_Witness ==
    /\ ui_pc = "returned"
    /\ Said("Diarization complete")
    /\ Said("Summarization failed")
    /\ pc = "returned"
    /\ conversation_text # <<>>
    /\ "text:conversation" \in rendered

\* ------------------------------------------------------- chunking claims
Packing == sum_pc \in {"pack_tokens", "pack_lines"}
SomeNonBlankInput == \E i \in 1..Len(input_lines) : NonBlankInput(input_lines[i])

\* Number of characters of a sequence of lines.
RECURSIVE CharSum(_)
CharSum(lns) == IF lns = <<>> THEN 0 ELSE Len(Head(lns)) + CharSum(Tail(lns))

\* The non-blank lines of the text that was chunked, read off the lines the
\* argument was written from: summarize strips the text first, which strips
\* the first non-blank line on the left and the last on the right.
ExpectedLines ==
    LET nb == SelectSeq(input_lines, NonBlankInput) IN
    IF caller # "summarize" THEN nb
    ELSE [i \in 1..Len(nb) |->
            IF Len(nb) = 1 THEN Strip(nb[i])
            ELSE IF i = 1 THEN LStrip(nb[i])
            ELSE IF i = Len(nb) THEN RStrip(nb[i])
            ELSE nb[i]]

\* The chunks returned are non-empty and, joined by newlines, are the
\* non-blank lines of the text in their order.
ChunksKeepLines ==
    (ChunkingReturned /\ SomeNonBlankInput) =>
        /\ \A i \in 1..Len(chunks) : chunks[i] # <<>>
        /\ Join(chunks, <<"\n">>) = Join(ExpectedLines, <<"\n">>)

\* A step of a packing loop or its return appends a chunk only from a
\* non-empty buffer.
FlushOnlyNonEmpty ==
    (Packing /\ lines # <<>> /\ chunks' # chunks) => current # <<>>

\* C11 as stated: chunking loses, duplicates and reorders nothing, the
\* running length counter always equals the total length of the buffered
\* lines (tokens in _chunk_by_tokens, characters in _chunk_by_lines), and a
\* chunk is flushed only when the buffer is non-empty.
C11_Original ==
    /\ [](/\ ChunksKeepLines
          /\ Packing => current_len = IF sum_pc = "pack_tokens"
                                      THEN TokSum(tokenizer, current)
                                      ELSE CharSum(current))
    /\ [][FlushOnlyNonEmpty]_vars

\* C11 (amended): chunking loses, duplicates and reorders nothing; the
\* running counter equals the total token length of the buffered lines in
\* _chunk_by_tokens and, in _chunk_by_lines, their total character length
\* plus one per buffered line; a chunk is flushed only when the buffer is
\* non-empty.
C11_ChunkingKeepsLines ==
    /\ [](/\ ChunksKeepLines
          /\ Packing => current_len = IF sum_pc = "pack_tokens"
                                      THEN TokSum(tokenizer, current)
                                      ELSE CharSum(current) + Len(current))
    /\ [][FlushOnlyNonEmpty]_vars

\* A text with a blank line, packed by token length into several chunks of
\* which one holds more than one line.
C11_Witness ==
    /\ caller = "chunk_by_tokens" /\ sum_pc = "done" /\ tokenizer # "none"
    /\ Len(SelectSeq(input_lines, NonBlankInput)) < Len(input_lines)
    /\ Len(chunks) >= 2
    /\ \E i \in 1..Len(chunks) : Len(SplitLines(chunks[i])) >= 2
    /\ current # <<>>

====
